---------------------------- MODULE Spec2Model ----------------------------
(***************************************************************************)
(* Ingestion core of the knowledge-base service: the embedding cache of    *)
(* EmbeddingService (src/embedding_service.py), the detection merge and    *)
(* redaction of PIIProtectionService (src/pii_service.py), and the chunker *)
(* and the conversion step of DocumentProcessor (src/document_service.py). *)
(*                                                                         *)
(* Texts are natural numbers.  Python's 0-based positions are 1-based      *)
(* here, so a Python slice s[a:b] is SubSeq(s, a + 1, b).                  *)
(***************************************************************************)
EXTENDS Integers, Sequences, FiniteSets, TLC

VARIABLES
    cache,          \* EmbeddingService._cache: the dict, as its items in insertion order
    cacheEnabled,   \* EmbeddingService._cache_enabled
    lastCall,       \* the embedding call that returned last: what it got, gave and encoded
    prevCall,       \* the call that returned before it, when that was an embed_text
    nCalls,         \* number of embedding calls made
    workers,        \* concurrent embed_texts calls: each caller's locals and position
    piiIn,          \* a PII call: content, categories argument, settings, what the
                    \* extraction service does
    piiOut,         \* what the PII call returned
    chunker,        \* a _chunk_content call: its arguments, locals and position
    doc             \* a process_document call: the file, the converter, the outcome

embedVars == <<cache, cacheEnabled, lastCall, prevCall, nCalls>>

piiVars == <<piiIn, piiOut>>

docVars == <<chunker, doc>>

vars == <<embedVars, workers, piiVars, docVars>>

-----------------------------------------------------------------------------
(* Bounds of the model *)

\* texts the callers pass are 1..MaxText
MaxText == 2
\* longest list passed to embed_texts
MaxTexts == 3
\* calls made in one behaviour
MaxCalls == 3
\* calls made in one behaviour that starts with the nearly full cache
FullCalls == 3
\* ... and FailingCalls when the model may raise
FailingCalls == 2
\* concurrent callers pass lists of at most RaceListLen texts of 1..RaceText
RaceText == 2
RaceListLen == 2
\* a scanned content is made of at most MaxSegments pieces
MaxSegments == 3
\* the extraction service reports at most MaxExtractions extractions
MaxExtractions == 2

\* pieces (words, blanks, paragraph separators) a chunked content is made of
MaxPieces == 5

\* the same, for the calls followed to their return
MaxRunPieces == 3
\* texts of an embed_texts call that runs beside embed_text and clear_cache
SharedListLen == 1
\* pieces of a content scanned under each category argument, and texts the
\* extraction service reports in one call
MaxArgumentSegments == 2
MaxReports == 2
\* components of a vector given to compute_similarity, and calls of it
MaxDim == 2
SimilarityCalls == 1
\* bytes of a file's content and characters of its name
MaxBytes == 2
MaxNameLen == 2

-----------------------------------------------------------------------------
(* Program constants *)

\* if len(self._cache) > 10000
CacheCeiling == 10000
\* keys_to_remove = list(self._cache.keys())[:5000]
EvictCount == 5000

-----------------------------------------------------------------------------
(* The model runtime and the cache *)

\* hashlib.md5(text.encode()).hexdigest(): a digest of the text, taken as
\* collision-free
_get_cache_key(text) == <<"md5", text>>

\* model.encode(text, normalize_embeddings=True).tolist(): the runtime is
\* deterministic; the vector of a text is a two-component vector fixed by it
Encode(text) == <<text, 1 - text>>

\* model.encode(list, ...): one batched call, one vector per text, in order
EncodeBatch(texts) == [j \in 1..Len(texts) |-> Encode(texts[j])]

\* cache_key in self._cache
CacheHas(c, key) == \E i \in 1..Len(c) : c[i][1] = key

\* self._cache[cache_key]
CacheGet(c, key) == c[CHOOSE i \in 1..Len(c) : c[i][1] = key][2]

\* self._cache[cache_key] = embedding_list: a new key goes last, a key the
\* dict already holds keeps its place and takes the new value
CachePut(c, key, value) ==
    IF CacheHas(c, key)
    THEN [i \in 1..Len(c) |-> IF c[i][1] = key THEN <<key, value>> ELSE c[i]]
    ELSE Append(c, <<key, value>>)

\* an eviction that drops the entries inserted last instead of first
EvictNewest(c) == SubSeq(c, 1, Len(c) - EvictCount)

\* for key in list(self._cache.keys())[:5000]: del self._cache[key]
EvictOldest(c) == SubSeq(c, EvictCount + 1, Len(c))

\* a size check that empties the cache once it is over the ceiling
ManageCacheSizeByClearing(c) == IF Len(c) > CacheCeiling THEN <<>> ELSE c

\* the size check and eviction that follow the store in embed_text
ManageCacheSize(c) == IF Len(c) > CacheCeiling THEN EvictOldest(c) ELSE c


-----------------------------------------------------------------------------
(* EmbeddingService.embed_text *)

\* What a call hands back: the value returned, the cache it leaves, and the
\* batches it submitted to the model (one sequence of texts per encode call)
Outcome(result, c, encoded) ==
    [result |-> result, cache |-> c, encoded |-> encoded, raised |-> FALSE]

\* What a call hands back when model.encode raised: the exception leaves the
\* call, which has no except clause around it, and nothing is returned
Raising(c, encoded) ==
    [result |-> <<>>, cache |-> c, encoded |-> encoded, raised |-> TRUE]

embed_text(c, enabled, text) ==
    LET cache_key == _get_cache_key(text)
        embedding_list == Encode(text)
    IN  IF enabled /\ CacheHas(c, cache_key)
        THEN Outcome(CacheGet(c, cache_key), c, <<>>)
        ELSE Outcome(embedding_list,
                     IF enabled
                     THEN ManageCacheSize(CachePut(c, cache_key, embedding_list))
                     ELSE c,
                     << <<text>> >>)

\* embed_text when model.encode raises: the cache check of lines 80-83 comes
\* first, the store of lines 97-104 is not reached
embed_text_encode_raises(c, enabled, text) ==
    LET cache_key == _get_cache_key(text)
    IN  IF enabled /\ CacheHas(c, cache_key)
        THEN Outcome(CacheGet(c, cache_key), c, <<>>)
        ELSE Raising(c, << <<text>> >>)

-----------------------------------------------------------------------------
(* EmbeddingService.embed_texts *)

\* embeddings = [], texts_to_embed = [], text_indices = []
NoLists == [embeddings |-> <<>>, texts_to_embed |-> <<>>, text_indices |-> <<>>]

\* embeddings.append((i, self._cache[cache_key])); continue
ScanHit(st, i, value) ==
    [st EXCEPT !.embeddings = Append(@, <<i, value>>)]

\* texts_to_embed.append(text); text_indices.append(i)
ScanMiss(st, texts, i) ==
    [st EXCEPT !.texts_to_embed = Append(@, texts[i]),
               !.text_indices = Append(@, i)]

\* one pass of "for i, text in enumerate(texts)"
ScanStep(st, c, enabled, texts, i) ==
    IF enabled /\ CacheHas(c, _get_cache_key(texts[i]))
    THEN ScanHit(st, i, CacheGet(c, _get_cache_key(texts[i])))
    ELSE ScanMiss(st, texts, i)

RECURSIVE ScanLoop(_, _, _, _, _)
ScanLoop(st, c, enabled, texts, i) ==
    IF i > Len(texts) THEN st
    ELSE ScanLoop(ScanStep(st, c, enabled, texts, i), c, enabled, texts, i + 1)

\* a store that takes the key from the batch position j, not from the input
\* position idx the vector belongs to
StoreStepByBatchPosition(st, c, enabled, texts, new_embeddings, j) ==
    LET idx == st.text_indices[j]
        embedding_list == new_embeddings[j]
    IN  [st |-> [st EXCEPT !.embeddings = Append(@, <<idx, embedding_list>>)],
         cache |-> IF enabled
                   THEN CachePut(c, _get_cache_key(texts[j]), embedding_list)
                   ELSE c]

\* one pass of "for idx, embedding in zip(text_indices, new_embeddings)":
\* the lists and the cache after it
StoreStep(st, c, enabled, texts, new_embeddings, j) ==
    LET idx == st.text_indices[j]
        embedding_list == new_embeddings[j]
    IN  [st |-> [st EXCEPT !.embeddings = Append(@, <<idx, embedding_list>>)],
         cache |-> IF enabled
                   THEN CachePut(c, _get_cache_key(texts[idx]), embedding_list)
                   ELSE c]

RECURSIVE StoreLoop(_, _, _, _, _, _)
StoreLoop(st, c, enabled, texts, new_embeddings, j) ==
    IF j > Len(st.text_indices) \/ j > Len(new_embeddings)
    THEN [st |-> st, cache |-> c]
    ELSE LET s == StoreStep(st, c, enabled, texts, new_embeddings, j)
         IN  StoreLoop(s.st, s.cache, enabled, texts, new_embeddings, j + 1)

\* list.sort(key=lambda x: x[0]): stable, ascending in the position
RECURSIVE InsertByIndex(_, _)
InsertByIndex(sorted, e) ==
    IF sorted = <<>> THEN <<e>>
    ELSE IF sorted[Len(sorted)][1] <= e[1] THEN Append(sorted, e)
    ELSE Append(InsertByIndex(SubSeq(sorted, 1, Len(sorted) - 1), e),
                sorted[Len(sorted)])

RECURSIVE SortLoop(_, _, _)
SortLoop(embeddings, k, sorted) ==
    IF k > Len(embeddings) THEN sorted
    ELSE SortLoop(embeddings, k + 1, InsertByIndex(sorted, embeddings[k]))

SortByIndex(embeddings) == SortLoop(embeddings, 1, <<>>)

\* a merge that forgets the sort: cached vectors first, computed ones after
MergeUnsorted(embeddings) == [k \in 1..Len(embeddings) |-> embeddings[k][2]]

\* embeddings.sort(key=lambda x: x[0]); return [emb for _, emb in embeddings]
MergeInOrder(embeddings) ==
    LET sorted == SortByIndex(embeddings)
    IN  [k \in 1..Len(sorted) |-> sorted[k][2]]

embed_texts(c, enabled, texts) ==
    IF texts = <<>> THEN Outcome(<<>>, c, <<>>)
    ELSE LET scanned == ScanLoop(NoLists, c, enabled, texts, 1)
         IN  IF scanned.texts_to_embed = <<>>
             THEN Outcome(MergeInOrder(scanned.embeddings), c, <<>>)
             ELSE LET new_embeddings == EncodeBatch(scanned.texts_to_embed)
                      stored == StoreLoop(scanned, c, enabled, texts,
                                          new_embeddings, 1)
                  IN  Outcome(MergeInOrder(stored.st.embeddings), stored.cache,
                              <<scanned.texts_to_embed>>)

\* an embed_texts that returns the cached vectors when the model fails
embed_texts_skipping_failed(c, enabled, texts) ==
    IF texts = <<>> THEN Outcome(<<>>, c, <<>>)
    ELSE LET scanned == ScanLoop(NoLists, c, enabled, texts, 1)
         IN  Outcome(MergeInOrder(scanned.embeddings), c,
                     IF scanned.texts_to_embed = <<>> THEN <<>>
                     ELSE <<scanned.texts_to_embed>>)

\* embed_texts when model.encode raises: the scan of lines 133-140 is done,
\* the store loop and the sort are not reached
embed_texts_encode_raises(c, enabled, texts) ==
    IF texts = <<>> THEN Outcome(<<>>, c, <<>>)
    ELSE LET scanned == ScanLoop(NoLists, c, enabled, texts, 1)
         IN  IF scanned.texts_to_embed = <<>>
             THEN Outcome(MergeInOrder(scanned.embeddings), c, <<>>)
             ELSE Raising(c, <<scanned.texts_to_embed>>)

-----------------------------------------------------------------------------
(* EmbeddingService.clear_cache *)

\* count = len(self._cache); self._cache.clear(); return count
\* a clear_cache that counts the entries after it removed them
clear_cache_counting_afterwards(c) == Outcome(Len(<<>>), <<>>, <<>>)

clear_cache(c) == Outcome(Len(c), <<>>, <<>>)

-----------------------------------------------------------------------------
(* The service called by one caller at a time *)

NoCall ==
    [op |-> "none", arg |-> <<>>, result |-> <<>>, encoded |-> <<>>,
     raised |-> FALSE, model |-> "works"]

RECURSIVE SeqsUpTo(_, _)
SeqsUpTo(S, n) ==
    IF n = 0 THEN {<<>>}
    ELSE LET shorter == SeqsUpTo(S, n - 1)
         IN  shorter \cup {Append(s, x) : s \in shorter, x \in S}

Texts == 1..MaxText

TextLists == SeqsUpTo(Texts, MaxTexts)

\* no PII call
NoPii == [op |-> "none"]

\* no _chunk_content and no process_document call is under way
NoChunker == [pc |-> "none"]

NoDocument == [pc |-> "none"]

DocIdle == chunker = NoChunker /\ doc = NoDocument

Callers == {1, 2}

\* a caller that is in no call
Idle ==
    [pc |-> "idle", texts |-> <<>>, i |-> 1, st |-> NoLists,
     new_embeddings |-> <<>>, j |-> 1, result |-> <<>>]

NoCallers == [w \in Callers |-> Idle]

\* The cache after embed_text(1), ..., embed_text(n) on a new service, n no
\* more than CacheCeiling: no call of these evicts
Filled(n) == [i \in 1..n |-> <<_get_cache_key(i), Encode(i)>>]

\* __init__: an empty cache; EMBEDDING_CACHE_ENABLED is read from the settings
Init ==
    /\ workers = NoCallers
    /\ DocIdle
    /\ piiIn = NoPii
    /\ piiOut = NoPii
    /\ cache = <<>>
    /\ cacheEnabled \in BOOLEAN
    /\ lastCall = NoCall
    /\ prevCall = NoCall
    /\ nCalls = 0

\* a call is over: model tells whether model.encode works or raises in it
Over(model, op, arg, out) ==
    /\ cache' = out.cache
    /\ prevCall' = IF lastCall.op = "embed_text" THEN lastCall ELSE NoCall
    /\ lastCall' = [op |-> op, arg |-> arg, result |-> out.result,
                    encoded |-> out.encoded, raised |-> out.raised,
                    model |-> model]
    /\ nCalls' = nCalls + 1
    /\ UNCHANGED <<cacheEnabled, workers, piiVars, docVars>>

Returned(op, arg, out) == Over("works", op, arg, out)

EmbedTextOf(T, budget) ==
    /\ nCalls < budget
    /\ \E text \in T :
          Returned("embed_text", text, embed_text(cache, cacheEnabled, text))

EmbedTextsOf(L, budget) ==
    /\ nCalls < budget
    /\ \E texts \in L :
          Returned("embed_texts", texts, embed_texts(cache, cacheEnabled, texts))

ClearCacheOf(budget) ==
    /\ nCalls < budget
    /\ Returned("clear_cache", <<>>, clear_cache(cache))

EmbedText == EmbedTextOf(Texts, MaxCalls)

EmbedTexts == EmbedTextsOf(TextLists, MaxCalls)

ClearCache == ClearCacheOf(MaxCalls)

Next == EmbedText \/ EmbedTexts \/ ClearCache

Spec == Init /\ [][Next]_vars

-----------------------------------------------------------------------------
(* The service with a model whose encode may raise *)

FailingEmbedText == EmbedTextOf(Texts, FailingCalls)

FailingEmbedTexts == EmbedTextsOf(TextLists, FailingCalls)

FailingClearCache == ClearCacheOf(FailingCalls)

EmbedTextEncodeRaises ==
    /\ nCalls < FailingCalls
    /\ \E text \in Texts :
          Over("raises", "embed_text", text,
               embed_text_encode_raises(cache, cacheEnabled, text))

EmbedTextsEncodeRaises ==
    /\ nCalls < FailingCalls
    /\ \E texts \in TextLists :
          Over("raises", "embed_texts", texts,
               embed_texts_encode_raises(cache, cacheEnabled, texts))

NextFailing ==
    \/ FailingEmbedText
    \/ FailingEmbedTexts
    \/ FailingClearCache
    \/ EmbedTextEncodeRaises
    \/ EmbedTextsEncodeRaises

SpecFailing == Init /\ [][NextFailing]_vars

-----------------------------------------------------------------------------
(* The service with a cache that is nearly full *)

\* texts passed: the oldest cached, the first that outlives one eviction, and
\* texts not embedded yet
FullTexts == {1, EvictCount + 1, CacheCeiling, CacheCeiling + 1}

\* lists passed: one new text, two new texts, a cached text around a new one
FullTextLists == {<<CacheCeiling>>, <<CacheCeiling, CacheCeiling + 1>>,
                  <<1, CacheCeiling + 1, 1>>}

InitFull ==
    /\ workers = NoCallers
    /\ DocIdle
    /\ piiIn = NoPii
    /\ piiOut = NoPii
    /\ cache = Filled(CacheCeiling - 1)
    /\ cacheEnabled = TRUE
    /\ lastCall = NoCall
    /\ prevCall = NoCall
    /\ nCalls = 0

FullEmbedText == EmbedTextOf(FullTexts, FullCalls)

FullEmbedTexts == EmbedTextsOf(FullTextLists, FullCalls)

FullClearCache == ClearCacheOf(FullCalls)

NextFull == FullEmbedText \/ FullEmbedTexts \/ FullClearCache

SpecFull == InitFull /\ [][NextFull]_vars

-----------------------------------------------------------------------------
(* embed_texts called by two callers at once, interleaved statement by      *)
(* statement; the membership test and the read of a hit are two steps       *)

RaceTextLists == SeqsUpTo(1..RaceText, RaceListLen)

\* the two calls start on a cache that earlier calls left: nothing, or the
\* vectors of texts 1..n when caching is enabled
InitRace ==
    /\ cacheEnabled \in BOOLEAN
    /\ cache \in IF cacheEnabled THEN {Filled(n) : n \in 0..RaceText} ELSE {<<>>}
    /\ lastCall = NoCall
    /\ prevCall = NoCall
    /\ nCalls = 0
    /\ workers = NoCallers
    /\ DocIdle
    /\ piiIn = NoPii
    /\ piiOut = NoPii

Step(w, new, c) ==
    /\ workers' = [workers EXCEPT ![w] = new]
    /\ cache' = c
    /\ UNCHANGED <<cacheEnabled, lastCall, prevCall, nCalls, piiVars, docVars>>

\* where the scan goes after position i: the next text, or past the loop to
\* "if texts_to_embed:"
AfterScan(texts, st, i) ==
    IF i < Len(texts) THEN "scan"
    ELSE IF st.texts_to_embed # <<>> THEN "encode" ELSE "sort"

\* embed_texts(texts): "if not texts: return []", else the empty lists
RaceBegin(w) ==
    /\ workers[w].pc = "idle"
    /\ \E texts \in RaceTextLists :
          Step(w, [Idle EXCEPT
                      !.texts = texts,
                      !.pc = IF texts = <<>> THEN "done" ELSE "scan"],
               cache)

\* if self._cache_enabled: ... if cache_key in self._cache: (else the miss)
RaceScan(w) ==
    LET me == workers[w] IN
    /\ me.pc = "scan"
    /\ IF cacheEnabled /\ CacheHas(cache, _get_cache_key(me.texts[me.i]))
       THEN Step(w, [me EXCEPT !.pc = "read"], cache)
       ELSE LET st == ScanMiss(me.st, me.texts, me.i)
            IN  Step(w, [me EXCEPT !.st = st, !.i = me.i + 1,
                                   !.pc = AfterScan(me.texts, st, me.i)],
                     cache)

\* embeddings.append((i, self._cache[cache_key])): KeyError when the key is
\* no longer there
RaceRead(w) ==
    LET me == workers[w]
        cache_key == _get_cache_key(me.texts[me.i])
    IN
    /\ me.pc = "read"
    /\ IF CacheHas(cache, cache_key)
       THEN LET st == ScanHit(me.st, me.i, CacheGet(cache, cache_key))
            IN  Step(w, [me EXCEPT !.st = st, !.i = me.i + 1,
                                   !.pc = AfterScan(me.texts, st, me.i)],
                     cache)
       ELSE Step(w, [me EXCEPT !.pc = "raised"], cache)

\* new_embeddings = model.encode(texts_to_embed, ...)
RaceEncode(w) ==
    LET me == workers[w] IN
    /\ me.pc = "encode"
    /\ Step(w, [me EXCEPT !.new_embeddings = EncodeBatch(me.st.texts_to_embed),
                          !.j = 1, !.pc = "store"],
            cache)

\* one pass of the store loop
RaceStore(w) ==
    LET me == workers[w]
        s == StoreStep(me.st, cache, cacheEnabled, me.texts, me.new_embeddings, me.j)
    IN
    /\ me.pc = "store"
    /\ Step(w, [me EXCEPT !.st = s.st, !.j = me.j + 1,
                          !.pc = IF me.j < Len(me.st.text_indices)
                                 THEN "store" ELSE "sort"],
            s.cache)

\* embeddings.sort(...); return [emb for _, emb in embeddings]
RaceSort(w) ==
    LET me == workers[w] IN
    /\ me.pc = "sort"
    /\ Step(w, [me EXCEPT !.result = MergeInOrder(me.st.embeddings), !.pc = "done"],
            cache)

NextRace ==
    \E w \in Callers :
        \/ RaceBegin(w)
        \/ RaceScan(w)
        \/ RaceRead(w)
        \/ RaceEncode(w)
        \/ RaceStore(w)
        \/ RaceSort(w)

SpecRace == InitRace /\ [][NextRace]_vars

-----------------------------------------------------------------------------
(* embed_text, embed_texts and clear_cache called by two callers at once on *)
(* the shared cache, interleaved statement by statement.  The deletions of  *)
(* one eviction are taken as one step: an interleaving among the finer ones *)

\* a text the cache holds in every initial state but the empty one, and one
\* that a full cache does not hold
SharedTexts == {1, CacheCeiling + 1}

SharedTextLists == SeqsUpTo({1, CacheCeiling + 1}, SharedListLen) \ {<<>>}

\* a caller that is in no call: the locals of embed_texts, and text,
\* keys_to_remove and count of the other two
SharedIdle ==
    [pc |-> "idle", texts |-> <<>>, i |-> 1, st |-> NoLists,
     new_embeddings |-> <<>>, j |-> 1, result |-> <<>>,
     text |-> 0, keys_to_remove |-> <<>>, count |-> 0]

\* the calls start on a cache that earlier calls left: nothing, one vector,
\* or as many as the ceiling allows
InitShared ==
    /\ cacheEnabled \in BOOLEAN
    /\ cache \in IF cacheEnabled
                 THEN {Filled(0), Filled(1), Filled(CacheCeiling)} ELSE {<<>>}
    /\ lastCall = NoCall
    /\ prevCall = NoCall
    /\ nCalls = 0
    /\ workers = [w \in Callers |-> SharedIdle]
    /\ DocIdle
    /\ piiIn = NoPii
    /\ piiOut = NoPii

\* embed_text(text): if self._cache_enabled
SharedBeginText(w) ==
    /\ workers[w].pc = "idle"
    /\ \E text \in SharedTexts :
          Step(w, [SharedIdle EXCEPT !.text = text,
                                     !.pc = IF cacheEnabled THEN "test" ELSE "model"],
               cache)

\* if cache_key in self._cache
SharedTest(w) ==
    LET me == workers[w] IN
    /\ me.pc = "test"
    /\ Step(w, [me EXCEPT !.pc = IF CacheHas(cache, _get_cache_key(me.text))
                                 THEN "hit" ELSE "model"],
            cache)

\* return self._cache[cache_key]: KeyError when the key is no longer there
SharedHit(w) ==
    LET me == workers[w]
        cache_key == _get_cache_key(me.text)
    IN
    /\ me.pc = "hit"
    /\ IF CacheHas(cache, cache_key)
       THEN Step(w, [me EXCEPT !.result = CacheGet(cache, cache_key),
                               !.pc = "returned"],
                 cache)
       ELSE Step(w, [me EXCEPT !.pc = "raised"], cache)

\* embedding_list = model.encode(text, ...).tolist()
SharedModel(w) ==
    LET me == workers[w] IN
    /\ me.pc = "model"
    /\ Step(w, [me EXCEPT !.result = Encode(me.text),
                          !.pc = IF cacheEnabled THEN "put" ELSE "returned"],
            cache)

\* self._cache[cache_key] = embedding_list
SharedPut(w) ==
    LET me == workers[w] IN
    /\ me.pc = "put"
    /\ Step(w, [me EXCEPT !.pc = "size"],
            CachePut(cache, _get_cache_key(me.text), me.result))

\* if len(self._cache) > 10000: keys_to_remove = list(self._cache.keys())[:5000]
SharedSize(w) ==
    LET me == workers[w] IN
    /\ me.pc = "size"
    /\ IF Len(cache) > CacheCeiling
       THEN Step(w, [me EXCEPT !.keys_to_remove =
                                   [k \in 1..EvictCount |-> cache[k][1]],
                               !.pc = "evict"],
                 cache)
       ELSE Step(w, [me EXCEPT !.pc = "returned"], cache)

\* "for key in keys_to_remove: del self._cache[key]" on cache c: the cache it
\* leaves, and whether a del raised KeyError on a key that is not there
DeleteKeys(c, keys_to_remove) ==
    LET held == {c[i][1] : i \in 1..Len(c)}
        gone == {k \in 1..Len(keys_to_remove) : keys_to_remove[k] \notin held}
        stop == IF gone = {} THEN Len(keys_to_remove) + 1
                ELSE CHOOSE k \in gone : \A l \in gone : k <= l
        deleted == {keys_to_remove[k] : k \in 1..(stop - 1)}
    IN  [cache |-> SelectSeq(c, LAMBDA entry : entry[1] \notin deleted),
         raised |-> gone # {}]

SharedEvict(w) ==
    LET me == workers[w]
        after == DeleteKeys(cache, me.keys_to_remove)
    IN
    /\ me.pc = "evict"
    /\ Step(w, [me EXCEPT !.pc = IF after.raised THEN "raised" ELSE "returned"],
            after.cache)

\* clear_cache(): count = len(self._cache)
SharedBeginClear(w) ==
    /\ workers[w].pc = "idle"
    /\ Step(w, [SharedIdle EXCEPT !.count = Len(cache), !.pc = "clear"], cache)

\* self._cache.clear(); return count
SharedClear(w) ==
    LET me == workers[w] IN
    /\ me.pc = "clear"
    /\ Step(w, [me EXCEPT !.pc = "returned"], <<>>)

\* embed_texts(texts), texts not empty
SharedBeginTexts(w) ==
    /\ workers[w].pc = "idle"
    /\ \E texts \in SharedTextLists :
          Step(w, [SharedIdle EXCEPT !.texts = texts, !.pc = "scan"], cache)

NextShared ==
    \E w \in Callers :
        \/ SharedBeginText(w)
        \/ SharedTest(w)
        \/ SharedHit(w)
        \/ SharedModel(w)
        \/ SharedPut(w)
        \/ SharedSize(w)
        \/ SharedEvict(w)
        \/ SharedBeginClear(w)
        \/ SharedClear(w)
        \/ SharedBeginTexts(w)
        \/ RaceScan(w)
        \/ RaceRead(w)
        \/ RaceEncode(w)
        \/ RaceStore(w)
        \/ RaceSort(w)

SpecShared == InitShared /\ [][NextShared]_vars

-----------------------------------------------------------------------------
(* PIIProtectionService: the pattern-based detector.                        *)
(*                                                                          *)
(* A content is a sequence of characters of a seven-character alphabet:     *)
(* "K" a credential keyword ("pwd"), "=" the [:=] after it, "a" a letter,   *)
(* "7" a digit group, "@", "-" and " ".  Offsets are Python's: 0-based,     *)
(* a span is start <= position < end.  The patterns are kept in shape:      *)
(* a keyword pattern reporting its group 1, whole-match patterns between    *)
(* word boundaries, and two patterns of one category that can match the     *)
(* same span.                                                               *)

Alphabet == {"K", "=", "a", "7", "@", "-", " "}

\* \s
IsSpace(ch) == ch = " "

\* \w
IsWord(ch) == ch \in {"K", "a", "7"}

\* content[p], Python's position p
CharAt(content, p) == content[p + 1]

\* the first position from p on that holds no whitespace: \s*
RECURSIVE SkipSpaces(_, _)
SkipSpaces(content, p) ==
    IF p < Len(content) /\ IsSpace(CharAt(content, p))
    THEN SkipSpaces(content, p + 1) ELSE p

\* the end of the longest run from p of characters that are no whitespace: [^\s'"]+
RECURSIVE NonSpaceRun(_, _)
NonSpaceRun(content, p) ==
    IF p < Len(content) /\ ~ IsSpace(CharAt(content, p))
    THEN NonSpaceRun(content, p + 1) ELSE p

\* the end of the longest run from p of word characters: [A-Za-z0-9]+
RECURSIVE WordRun(_, _)
WordRun(content, p) ==
    IF p < Len(content) /\ IsWord(CharAt(content, p))
    THEN WordRun(content, p + 1) ELSE p

\* \b at position p
WordBoundary(content, p) ==
    LET before == p > 0 /\ IsWord(CharAt(content, p - 1))
        after == p < Len(content) /\ IsWord(CharAt(content, p))
    IN  before # after

Is(content, p, ch) == p < Len(content) /\ CharAt(content, p) = ch

NoMatch == <<>>

\* a match: match.start(), match.end(), and the span detect reports, group 1
\* where the pattern has one (match.lastindex) and the whole match otherwise
Match(start, end, from, to) == [start |-> start, end |-> end, from |-> from, to |-> to]

\* (?i)pwd\s*[:=]\s*['"]?([^\s'"]+)['"]? at p
MatchPassword(content, p) ==
    IF ~ Is(content, p, "K") THEN NoMatch
    ELSE LET sep == SkipSpaces(content, p + 1)
             from == SkipSpaces(content, sep + 1)
             to == NonSpaceRun(content, from)
         IN  IF Is(content, sep, "=") /\ to > from
             THEN Match(p, to, from, to) ELSE NoMatch

\* \b[A-Za-z0-9._%+-]+@[A-Za-z0-9.-]+\.[A-Z|a-z]{2,}\b at p
MatchEmail(content, p) ==
    LET at == WordRun(content, p)
        end == WordRun(content, at + 1)
    IN  IF WordBoundary(content, p) /\ at > p /\ Is(content, at, "@") /\ end > at + 1
        THEN Match(p, end, p, end) ELSE NoMatch

\* \b(?:\+?1[-.\s]?)?\(?[2-9]\d{2}\)?[-.\s]?\d{3}[-.\s]?\d{4}\b at p: digit
\* groups, the separator optional
MatchPhoneLoose(content, p) ==
    IF ~ (WordBoundary(content, p) /\ Is(content, p, "7")) THEN NoMatch
    ELSE IF Is(content, p + 1, "-") /\ Is(content, p + 2, "7")
            /\ WordBoundary(content, p + 3)
    THEN Match(p, p + 3, p, p + 3)
    ELSE IF Is(content, p + 1, "7") /\ WordBoundary(content, p + 2)
    THEN Match(p, p + 2, p, p + 2)
    ELSE NoMatch

\* \b\d{3}[-.\s]\d{3}[-.\s]\d{4}\b at p: digit groups, the separator required
MatchPhoneStrict(content, p) ==
    IF WordBoundary(content, p) /\ Is(content, p, "7") /\ Is(content, p + 1, "-")
       /\ Is(content, p + 2, "7") /\ WordBoundary(content, p + 3)
    THEN Match(p, p + 3, p, p + 3) ELSE NoMatch

MatchAt(pattern, content, p) ==
    CASE pattern = "password" -> MatchPassword(content, p)
      [] pattern = "email" -> MatchEmail(content, p)
      [] pattern = "phone_loose" -> MatchPhoneLoose(content, p)
      [] pattern = "phone_strict" -> MatchPhoneStrict(content, p)

\* re.finditer(pattern, content): the matches left to right, each search
\* resuming where the match before ended
RECURSIVE finditer(_, _, _)
finditer(pattern, content, p) ==
    IF p >= Len(content) THEN <<>>
    ELSE LET m == MatchAt(pattern, content, p)
         IN  IF m = NoMatch THEN finditer(pattern, content, p + 1)
             ELSE <<m>> \o finditer(pattern, content,
                                    IF m.end > p THEN m.end ELSE p + 1)

\* list(PIICategory)
PIICategory ==
    <<"password", "api_key", "credit_card", "ssn", "email", "phone", "address">>

\* self._patterns.get(category, []): the patterns of the other categories
\* need literals and digit runs that no content over Alphabet holds
_patterns(category) ==
    CASE category = "password" -> <<"password">>
      [] category = "email" -> <<"email">>
      [] category = "phone" -> <<"phone_loose", "phone_strict">>
      [] OTHER -> <<>>

Detection(category, text, start, end, source) ==
    [category |-> category, text |-> text, start |-> start, end |-> end,
     source |-> source]

\* content[start:end]
Slice(content, start, end) == SubSeq(content, start + 1, end)

Found(detections, categories) == [detections |-> detections, categories |-> categories]

\* categories_found.append(category) unless it is there
Noted(categories_found, category) ==
    IF \E k \in 1..Len(categories_found) : categories_found[k] = category
    THEN categories_found ELSE Append(categories_found, category)

\* the detections of the matches of one pattern
RegexDetections(category, content, matches) ==
    [k \in 1..Len(matches) |->
        Detection(category, Slice(content, matches[k].from, matches[k].to),
                  matches[k].from, matches[k].to, "regex")]

\* "for pattern in patterns" from the n-th pattern on
RECURSIVE RegexPatternLoop(_, _, _, _)
RegexPatternLoop(acc, category, content, n) ==
    IF n > Len(_patterns(category)) THEN acc
    ELSE LET matches == finditer(_patterns(category)[n], content, 0)
         IN  RegexPatternLoop(
                 Found(acc.detections \o RegexDetections(category, content, matches),
                       IF matches = <<>> THEN acc.categories
                       ELSE Noted(acc.categories, category)),
                 category, content, n + 1)

\* "for category in categories" from the n-th category on
RECURSIVE RegexCategoryLoop(_, _, _, _)
RegexCategoryLoop(acc, content, categories, n) ==
    IF n > Len(categories) THEN acc
    ELSE RegexCategoryLoop(RegexPatternLoop(acc, categories[n], content, 1),
                           content, categories, n + 1)

_detect_with_regex(content, categories) ==
    RegexCategoryLoop(Found(<<>>, <<>>), content, categories, 1)

-----------------------------------------------------------------------------
(* PIIProtectionService: the extraction service (LangExtract)               *)

\* None where a string or a list is expected
None == <<"None">>

\* None where mapping.get(...) finds no category
NoCategory == "None"

\* extraction_class.lower()
Lower(extraction_class) ==
    CASE extraction_class = "PHONE" -> "phone"
      [] OTHER -> extraction_class

_map_extraction_to_category(extraction_class) ==
    LET extraction_lower == Lower(extraction_class)
    IN  CASE extraction_lower \in {"password", "credential"} -> "password"
          [] extraction_lower \in {"api_key", "access_token", "secret"} -> "api_key"
          [] extraction_lower \in {"credit_card", "card_number"} -> "credit_card"
          [] extraction_lower \in {"ssn", "social_security"} -> "ssn"
          [] extraction_lower = "email" -> "email"
          [] extraction_lower \in {"phone", "phone_number"} -> "phone"
          [] extraction_lower = "address" -> "address"
          [] OTHER -> NoCategory

\* category in categories
InList(x, list) == \E k \in 1..Len(list) : list[k] = x

\* content.find(text): the first position where text occurs, -1 when nowhere
Find(content, text) ==
    LET at == {p \in 0..(Len(content) - Len(text)) :
                   Slice(content, p, p + Len(text)) = text}
    IN  IF at = {} THEN -1 ELSE CHOOSE p \in at : \A q \in at : p <= q

\* what _detect_with_langextract hands to detect_pii: its dictionary, or the
\* exception that left it; threw tells that the source threw at all
Extracted(found, threw, propagated) ==
    [detections |-> found.detections, categories |-> found.categories,
     threw |-> threw, propagated |-> propagated]

\* an except clause that returns what the loop had collected
KeepCollected(acc) == acc

\* except Exception: return {"detections": [], "categories": []}
OnExtractionError(acc) == Found(<<>>, <<>>)

\* "for extraction in result.extractions" from the n-th on; content.find
\* raises TypeError on a text that is no string, and the except clause of
\* _detect_with_langextract then returns the empty dictionary
RECURSIVE LangLoop(_, _, _, _, _)
LangLoop(acc, content, categories, extractions, n) ==
    IF n > Len(extractions) THEN Extracted(acc, FALSE, FALSE)
    ELSE LET category == _map_extraction_to_category(extractions[n].class)
             text == extractions[n].text
             start == Find(content, text)
         IN  IF category = NoCategory \/ ~ InList(category, categories)
             THEN LangLoop(acc, content, categories, extractions, n + 1)
             ELSE IF text = None
             THEN Extracted(OnExtractionError(acc), TRUE, FALSE)
             ELSE IF start = -1
             THEN LangLoop(acc, content, categories, extractions, n + 1)
             ELSE LangLoop(
                      Found(Append(acc.detections,
                                   Detection(category, text, start,
                                             start + Len(text), "langextract")),
                            Noted(acc.categories, category)),
                      content, categories, extractions, n + 1)

\* lx is what the service does in this call: "fails_before_extract" raises
\* before the try block (import, example data), "raises" inside lx.extract,
\* "ok" returns extractions
_detect_with_langextract(content, categories, lx) ==
    CASE lx.kind = "fails_before_extract" ->
             Extracted(Found(<<>>, <<>>), TRUE, TRUE)
      [] lx.kind = "raises" ->
             Extracted(OnExtractionError(Found(<<>>, <<>>)), TRUE, FALSE)
      [] lx.kind = "ok" ->
             LangLoop(Found(<<>>, <<>>), content, categories, lx.extractions, 1)

-----------------------------------------------------------------------------
(* PIIProtectionService.detect_pii and redact_pii *)

\* the merge of detect_pii from the n-th pattern-based detection on:
\* existing_positions are the (start, end) of the detections kept so far
RECURSIVE MergeLoop(_, _, _)
MergeLoop(detections, regex, n) ==
    IF n > Len(regex) THEN detections
    ELSE LET pos == <<regex[n].start, regex[n].end>>
             existing_positions ==
                 {<<detections[k].start, detections[k].end>> :
                      k \in 1..Len(detections)}
         IN  MergeLoop(IF pos \notin existing_positions
                       THEN Append(detections, regex[n]) ELSE detections,
                       regex, n + 1)

\* a merge that also drops a pattern-based detection overlapping a kept one
RECURSIVE MergeLoopByOverlap(_, _, _)
MergeLoopByOverlap(detections, regex, n) ==
    IF n > Len(regex) THEN detections
    ELSE MergeLoopByOverlap(
             IF \E k \in 1..Len(detections) :
                    /\ detections[k].start < regex[n].end
                    /\ regex[n].start < detections[k].end
             THEN detections ELSE Append(detections, regex[n]),
             regex, n + 1)

MergeDetectionsByOverlap(detections, regex) == MergeLoopByOverlap(detections, regex, 1)

MergeDetections(detections, regex) == MergeLoop(detections, regex, 1)

\* PIIDetectionResult, with the detectors the call ran, in order, and whether
\* the extraction service threw
PIIDetectionResult(has_pii, categories_found, detections, ran, threw) ==
    [has_pii |-> has_pii, categories_found |-> categories_found,
     detections |-> detections, redacted_content |-> None,
     ran |-> ran, threw |-> threw]

SetOf(list) == {list[k] : k \in 1..Len(list)}

\* detect_pii after its early return, lines 119-151.  in: content, categories
\* (None when omitted) and lx, with kind "absent" when self._langextract or
\* settings.GOOGLE_API_KEY is not set
RunDetectors(in) ==
    LET categories ==
            IF in.categories = None \/ in.categories = <<>>
            THEN PIICategory ELSE in.categories
        configured == in.lx.kind # "absent"
        lang == IF configured
                THEN _detect_with_langextract(in.content, categories, in.lx)
                ELSE Extracted(Found(<<>>, <<>>), FALSE, FALSE)
        regex_result == _detect_with_regex(in.content, categories)
        detections == MergeDetections(lang.detections, regex_result.detections)
    IN  PIIDetectionResult(
            Len(detections) > 0,
            SetOf(lang.categories) \cup SetOf(regex_result.categories),
            detections,
            IF configured THEN <<"langextract", "regex">> ELSE <<"regex">>,
            lang.threw)

\* a detect_pii that does not read settings.PII_DETECTION_ENABLED
detect_pii_whatever_the_flag(in) == RunDetectors(in)

\* in.enabled is settings.PII_DETECTION_ENABLED
detect_pii(in) ==
    IF ~ in.enabled THEN PIIDetectionResult(FALSE, {}, <<>>, <<>>, FALSE)
    ELSE RunDetectors(in)

\* sorted(detections, key=lambda x: x["start"], reverse=True): stable
RECURSIVE InsertByStart(_, _)
InsertByStart(sorted, d) ==
    IF sorted = <<>> THEN <<d>>
    ELSE IF sorted[Len(sorted)].start >= d.start THEN Append(sorted, d)
    ELSE Append(InsertByStart(SubSeq(sorted, 1, Len(sorted) - 1), d),
                sorted[Len(sorted)])

RECURSIVE SortedFrom(_, _, _)
SortedFrom(detections, n, sorted) ==
    IF n > Len(detections) THEN sorted
    ELSE SortedFrom(detections, n + 1, InsertByStart(sorted, detections[n]))

SortByStartDescending(detections) == SortedFrom(detections, 1, <<>>)

\* self._redaction_strings.get(category, "[REDACTED]"): "[REDACTED_EMAIL]"
\* and so on, three characters long here
_redaction_strings(category) == <<"[", category, "]">>

\* redacted = redacted[:start] + redaction + redacted[end:]
Replace(redacted, detection) ==
    SubSeq(redacted, 1, detection.start)
        \o _redaction_strings(detection.category)
        \o SubSeq(redacted, detection.end + 1, Len(redacted))

RECURSIVE ReplaceLoop(_, _, _)
ReplaceLoop(redacted, sorted_detections, n) ==
    IF n > Len(sorted_detections) THEN redacted
    ELSE ReplaceLoop(Replace(redacted, sorted_detections[n]), sorted_detections, n + 1)

\* the pair redact_pii returns
redact_pii(in) ==
    LET detection_result == detect_pii(in)
        redacted == IF ~ detection_result.has_pii THEN in.content
                    ELSE ReplaceLoop(in.content,
                             SortByStartDescending(detection_result.detections), 1)
    IN  <<redacted, [detection_result EXCEPT !.redacted_content = redacted]>>

-----------------------------------------------------------------------------
(* The PII service called once on a content *)

Lexicon == {<<"K", "=", "a">>, <<"a", "@", "a">>, <<"7", "-", "7">>, <<" ">>}

RECURSIVE Concatenations(_)
Concatenations(n) ==
    IF n = 0 THEN {<<>>}
    ELSE LET shorter == Concatenations(n - 1)
         IN  shorter \cup {c \o piece : c \in shorter, piece \in Lexicon}

Contents == Concatenations(MaxSegments)

\* what the extraction service may report: a text that a pattern matches too
\* (its class in capitals), a part of a match, the empty text, a class that
\* maps to no category, a text that is no string
Extraction(class, text) == [class |-> class, text |-> text]

Extractions ==
    {Extraction("PHONE", <<"7", "-", "7">>), Extraction("email", <<"a">>),
     Extraction("email", <<>>), Extraction("note", <<"7">>),
     Extraction("email", None)}

Services ==
    {[kind |-> k] : k \in {"absent", "raises", "fails_before_extract"}}
        \cup {[kind |-> "ok", extractions |-> e] :
                  e \in SeqsUpTo(Extractions, MaxExtractions)}

CategoryArguments == {None, <<"email">>, <<"phone", "password">>}

PiiInputs ==
    {[op |-> "pending", content |-> c, categories |-> a, enabled |-> TRUE, lx |-> x] :
         c \in Contents, a \in CategoryArguments, x \in Services}
    \cup
    {[op |-> "pending", content |-> c, categories |-> None, enabled |-> FALSE,
      lx |-> x] :
         c \in Contents,
         x \in {[kind |-> "absent"],
                [kind |-> "ok", extractions |-> <<Extraction("email", <<"a">>)>>]}}

InitPii ==
    /\ cache = <<>>
    /\ cacheEnabled = TRUE
    /\ lastCall = NoCall
    /\ prevCall = NoCall
    /\ nCalls = 0
    /\ workers = NoCallers
    /\ DocIdle
    /\ piiIn \in PiiInputs
    /\ piiOut = NoPii

DetectPii ==
    /\ piiIn.op = "pending"
    /\ piiOut = NoPii
    /\ piiOut' = [op |-> "detect_pii", result |-> detect_pii(piiIn)]
    /\ UNCHANGED <<embedVars, workers, piiIn, docVars>>

RedactPii ==
    /\ piiIn.op = "pending"
    /\ piiOut = NoPii
    /\ LET pair == redact_pii(piiIn)
       IN  piiOut' = [op |-> "redact_pii", redacted |-> pair[1], result |-> pair[2]]
    /\ UNCHANGED <<embedVars, workers, piiIn, docVars>>

NextPii == DetectPii \/ RedactPii

SpecPii == InitPii /\ [][NextPii]_vars

-----------------------------------------------------------------------------
(* The PII service called with the category arguments a caller can pass,    *)
(* the empty list among them, and an extraction service that reports a text *)
(* twice or under another category than the patterns                        *)

\* "My password is secret123 and my email is john@example.com": the keyword
\* followed by a word and not by [:=], a value, and an address
ExampleContent ==
    <<"a", " ", "K", " ", "a", " ", "a", "7", " ", "a", " ", "a", " ",
      "a", " ", "a", " ", "a", "@", "a">>

\* where "secret123" and "john@example.com" are in it
ExampleSecret == <<6, 8>>
ExampleAddress == <<17, 20>>

\* "My password is [REDACTED_PASSWORD] and my email is [REDACTED_EMAIL]"
ExampleRedacted ==
    <<"a", " ", "K", " ", "a", " ">> \o _redaction_strings("password")
        \o <<" ", "a", " ", "a", " ", "a", " ", "a", " ">>
        \o _redaction_strings("email")

ArgumentContents ==
    {c \in Concatenations(MaxArgumentSegments) : c # <<>>} \cup {ExampleContent}

ArgumentExtractions ==
    {Extraction("email", <<"a", "@", "a">>),
     Extraction("credential", <<"a", "@", "a">>),
     Extraction("PHONE", <<"7", "-", "7">>)}

ArgumentServices ==
    {[kind |-> "absent"]}
        \cup {[kind |-> "ok", extractions |-> e] :
                  e \in SeqsUpTo(ArgumentExtractions, MaxReports)}

\* None is the omitted argument, <<>> the empty list
ArgumentCategories == {None, <<>>, <<"email">>, <<"password", "email">>}

ArgumentInputs ==
    {[op |-> "pending", content |-> c, categories |-> a, enabled |-> TRUE, lx |-> x] :
         c \in ArgumentContents, a \in ArgumentCategories, x \in ArgumentServices}

InitPiiArguments ==
    /\ cache = <<>>
    /\ cacheEnabled = TRUE
    /\ lastCall = NoCall
    /\ prevCall = NoCall
    /\ nCalls = 0
    /\ workers = NoCallers
    /\ DocIdle
    /\ piiIn \in ArgumentInputs
    /\ piiOut = NoPii

SpecPiiArguments == InitPiiArguments /\ [][NextPii]_vars

-----------------------------------------------------------------------------
(* DocumentProcessor._chunk_content.                                        *)
(*                                                                          *)
(* A text is a sequence of characters; NL is the newline and two of them    *)
(* separate paragraphs.                                                     *)

NL == "\n"

\* "\n\n"
ParagraphSeparator == <<NL, NL>>

\* what str.strip() removes
IsWhitespace(ch) == ch \in {" ", NL}

RECURSIVE lstrip(_)
lstrip(s) ==
    IF s # <<>> /\ IsWhitespace(s[1]) THEN lstrip(Tail(s)) ELSE s

RECURSIVE rstrip(_)
rstrip(s) ==
    IF s # <<>> /\ IsWhitespace(s[Len(s)])
    THEN rstrip(SubSeq(s, 1, Len(s) - 1)) ELSE s

\* a strip that removes nothing
strip_nothing(s) == s

\* str.strip()
strip(s) == lstrip(rstrip(s))

\* text.split("\n\n"): the pieces between the separators, found left to right
RECURSIVE split(_)
split(text) ==
    LET at == {p \in 1..(Len(text) - 1) : text[p] = NL /\ text[p + 1] = NL}
    IN  IF at = {} THEN <<text>>
        ELSE LET first == CHOOSE p \in at : \A q \in at : p <= q
             IN  <<SubSeq(text, 1, first - 1)>>
                     \o split(SubSeq(text, first + 2, Len(text)))

\* len(content.split()): the number of runs of characters that are no whitespace
word_count(content) ==
    Cardinality({p \in 1..Len(content) :
                     /\ ~ IsWhitespace(content[p])
                     /\ (p = 1 \/ IsWhitespace(content[p - 1]))})

\* s[start:], with Python's reading of a negative or too large start
SliceFrom(s, start) ==
    LET from == IF start < 0
                THEN (IF Len(s) + start < 0 THEN 0 ELSE Len(s) + start)
                ELSE (IF start > Len(s) THEN Len(s) ELSE start)
    IN  SubSeq(s, from + 1, Len(s))

\* settings.CHUNK_SIZE and settings.CHUNK_OVERLAP
CHUNK_SIZE == 1000

CHUNK_OVERLAP == 200

\* an argument that was not given (None); a given number n is <<n>>
Omitted == <<>>

\* "argument or default": None and 0 are both false
OrDefault(argument, default) ==
    IF argument = Omitted \/ argument[1] = 0 THEN default ELSE argument[1]

\* a chunk numbered from one
_create_chunk_numbered_from_one(content, document_id, chunk_index, metadata) ==
    [chunk_id |-> <<document_id, "_chunk_", chunk_index + 1>>,
     document_id |-> document_id,
     content |-> content,
     chunk_index |-> chunk_index + 1,
     char_count |-> Len(content),
     word_count |-> word_count(content),
     metadata |-> [filename |-> metadata.filename, chunk_index |-> chunk_index + 1]]

\* _create_chunk; chunk_id is f"{document_id}_chunk_{chunk_index}"
_create_chunk(content, document_id, chunk_index, metadata) ==
    [chunk_id |-> <<document_id, "_chunk_", chunk_index>>,
     document_id |-> document_id,
     content |-> content,
     chunk_index |-> chunk_index,
     char_count |-> Len(content),
     word_count |-> word_count(content),
     metadata |-> [filename |-> metadata.filename, chunk_index |-> chunk_index]]

\* the locals of _chunk_content before its loop.  Kept beside them, and read
\* by no statement: consumed, the paragraphs the loop has taken; for each
\* chunk the seed its buffer was started with and the paragraphs appended to
\* it; and the same two for the current buffer
NoChunks ==
    [chunks |-> <<>>, current_chunk |-> <<>>, chunk_index |-> 0,
     consumed |-> 0, seeds |-> <<>>, appended |-> <<>>,
     current_seed |-> <<>>, current_appended |-> <<>>]

\* chunks.append(self._create_chunk(content=current_chunk.strip(), ...));
\* chunk_index += 1
Emit(st, document_id, metadata) ==
    [st EXCEPT !.chunks = Append(@, _create_chunk(strip(st.current_chunk), document_id,
                                                  st.chunk_index, metadata)),
               !.chunk_index = @ + 1,
               !.seeds = Append(@, st.current_seed),
               !.appended = Append(@, st.current_appended)]

\* a cut that is not clamped
overlap_start_unclamped(current_chunk, chunk_overlap) ==
    Len(current_chunk) - chunk_overlap

\* overlap_start = max(0, len(current_chunk) - chunk_overlap)
overlap_start(current_chunk, chunk_overlap) ==
    IF Len(current_chunk) - chunk_overlap > 0
    THEN Len(current_chunk) - chunk_overlap ELSE 0

\* a seed taken from the head of the buffer
SeedFromHead(current_chunk, chunk_overlap) ==
    strip(SubSeq(current_chunk, 1,
                 IF chunk_overlap < Len(current_chunk)
                 THEN chunk_overlap ELSE Len(current_chunk)))

\* current_chunk[overlap_start:].strip()
Seed(current_chunk, chunk_overlap) ==
    strip(SliceFrom(current_chunk, overlap_start(current_chunk, chunk_overlap)))

\* the new buffer after a chunk was saved: the seed, and "\n\n" when the seed
\* is not empty
Restart(st, chunk_overlap) ==
    LET seed == Seed(st.current_chunk, chunk_overlap)
    IN  [st EXCEPT !.current_chunk =
                       IF seed # <<>> THEN seed \o ParagraphSeparator ELSE seed,
                   !.current_seed = seed,
                   !.current_appended = <<>>]

\* paragraphs joined by a space
AppendParagraphInline(st, para) ==
    [st EXCEPT !.current_chunk = @ \o para \o <<" ">>,
               !.current_appended = Append(@, para)]

\* current_chunk += para + "\n\n"
AppendParagraph(st, para) ==
    [st EXCEPT !.current_chunk = @ \o para \o ParagraphSeparator,
               !.current_appended = Append(@, para)]

\* a loop body that leaves out a paragraph longer than chunk_size
ChunkStepDroppingOversized(st, piece, chunk_size, chunk_overlap, document_id, metadata) ==
    LET para == strip(piece)
        taken == [st EXCEPT !.consumed = @ + 1]
    IN  IF para = <<>> \/ Len(para) > chunk_size THEN taken
        ELSE IF Len(st.current_chunk) + Len(para) + 2 > chunk_size
                 /\ st.current_chunk # <<>>
        THEN AppendParagraph(Restart(Emit(taken, document_id, metadata),
                                     chunk_overlap), para)
        ELSE AppendParagraph(taken, para)

\* the body of "for para in paragraphs" for one piece of the split
ChunkStep(st, piece, chunk_size, chunk_overlap, document_id, metadata) ==
    LET para == strip(piece)
        taken == [st EXCEPT !.consumed = @ + 1]
    IN  IF para = <<>> THEN taken
        ELSE IF Len(st.current_chunk) + Len(para) + 2 > chunk_size
                 /\ st.current_chunk # <<>>
        THEN AppendParagraph(Restart(Emit(taken, document_id, metadata),
                                     chunk_overlap), para)
        ELSE AppendParagraph(taken, para)

\* "if current_chunk.strip(): chunks.append(...)" after the loop
LastChunk(st, document_id, metadata) ==
    IF strip(st.current_chunk) # <<>> THEN Emit(st, document_id, metadata) ELSE st

RECURSIVE ChunkLoop(_, _, _, _, _, _, _)
ChunkLoop(st, paragraphs, n, chunk_size, chunk_overlap, document_id, metadata) ==
    IF n > Len(paragraphs) THEN st
    ELSE ChunkLoop(ChunkStep(st, paragraphs[n], chunk_size, chunk_overlap,
                             document_id, metadata),
                   paragraphs, n + 1, chunk_size, chunk_overlap, document_id, metadata)

\* _chunk_content, in one piece: the chunks it returns
_chunk_content(content, document_id, metadata, size_argument, overlap_argument) ==
    LET chunk_size == OrDefault(size_argument, CHUNK_SIZE)
        chunk_overlap == OrDefault(overlap_argument, CHUNK_OVERLAP)
        text == strip(content)
    IN  IF text = <<>> THEN <<>>
        ELSE LastChunk(ChunkLoop(NoChunks, split(text), 1, chunk_size, chunk_overlap,
                                 document_id, metadata),
                       document_id, metadata).chunks

-----------------------------------------------------------------------------
(* One _chunk_content call, a loop iteration at a time *)

\* pieces the contents are made of: two words, a blank and the separator
ChunkLexicon == {<<"a">>, <<"b", "c">>, <<" ">>, ParagraphSeparator}

RECURSIVE PiecesUpTo(_)
PiecesUpTo(n) ==
    IF n = 0 THEN {<<>>}
    ELSE LET shorter == PiecesUpTo(n - 1)
         IN  shorter \cup {c \o piece : c \in shorter, piece \in ChunkLexicon}

ChunkContents == PiecesUpTo(MaxPieces)

ChunkSizes == {Omitted, <<0>>, <<3>>, <<6>>, <<8>>}

ChunkOverlaps == {Omitted, <<0>>, <<1>>, <<4>>, <<8>>}

Repeated(ch, n) == [k \in 1..n |-> ch]

\* two paragraphs of 40 characters, chunk_size 50 and chunk_overlap 10
TwoParagraphs ==
    [content |-> Repeated("a", 40) \o ParagraphSeparator \o Repeated("b", 40),
     size_argument |-> <<50>>, overlap_argument |-> <<10>>]

ChunkCalls ==
    {[content |-> c, size_argument |-> s, overlap_argument |-> o] :
         c \in ChunkContents, s \in ChunkSizes, o \in ChunkOverlaps}
    \cup {TwoParagraphs}

DocumentId == "doc"

Metadata == [filename |-> "file"]

\* the call made, nothing executed yet
ChunkCall(call) ==
    [pc |-> "called", content |-> call.content,
     size_argument |-> call.size_argument, overlap_argument |-> call.overlap_argument,
     chunk_size |-> 0, chunk_overlap |-> 0, paragraphs |-> <<>>, st |-> NoChunks]

InitChunk ==
    /\ cache = <<>>
    /\ cacheEnabled = TRUE
    /\ lastCall = NoCall
    /\ prevCall = NoCall
    /\ nCalls = 0
    /\ workers = NoCallers
    /\ piiIn = NoPii
    /\ piiOut = NoPii
    /\ doc = NoDocument
    /\ chunker \in {ChunkCall(call) : call \in ChunkCalls}

\* lines 194-208: the defaults, the trim, the early return, the split
ChunkBegin ==
    /\ chunker.pc = "called"
    /\ LET text == strip(chunker.content)
       IN  chunker' =
               [chunker EXCEPT
                    !.chunk_size = OrDefault(chunker.size_argument, CHUNK_SIZE),
                    !.chunk_overlap = OrDefault(chunker.overlap_argument, CHUNK_OVERLAP),
                    !.paragraphs = IF text = <<>> THEN <<>> ELSE split(text),
                    !.pc = IF text = <<>> THEN "returned" ELSE "loop"]
    /\ UNCHANGED <<embedVars, workers, piiVars, doc>>

\* one iteration of "for para in paragraphs"
ChunkParagraph ==
    /\ chunker.pc = "loop"
    /\ chunker.st.consumed < Len(chunker.paragraphs)
    /\ chunker' =
           [chunker EXCEPT
                !.st = ChunkStep(chunker.st, chunker.paragraphs[chunker.st.consumed + 1],
                                 chunker.chunk_size, chunker.chunk_overlap,
                                 DocumentId, Metadata)]
    /\ UNCHANGED <<embedVars, workers, piiVars, doc>>

\* lines 235-244: the last chunk and the return
ChunkFinish ==
    /\ chunker.pc = "loop"
    /\ chunker.st.consumed = Len(chunker.paragraphs)
    /\ chunker' = [chunker EXCEPT !.st = LastChunk(chunker.st, DocumentId, Metadata),
                                  !.pc = "returned"]
    /\ UNCHANGED <<embedVars, workers, piiVars, doc>>

NextChunk == ChunkBegin \/ ChunkParagraph \/ ChunkFinish

SpecChunk == InitChunk /\ [][NextChunk]_vars

\* the contents of at most MaxRunPieces pieces that have no blank
RunContents ==
    {c \in PiecesUpTo(MaxRunPieces) : \A p \in 1..Len(c) : c[p] # " "}

\* the calls a caller makes by mistake, giving a chunk_overlap that is at
\* least the chunk_size it gives, on the contents of at most MaxRunPieces
\* pieces
MistakenCalls ==
    {[content |-> c, size_argument |-> s, overlap_argument |-> o] :
         c \in RunContents,
         s \in {x \in ChunkSizes : x # Omitted /\ x[1] > 0},
         o \in {x \in ChunkOverlaps : x # Omitted /\ x[1] > 0}}

InitChunkRuns ==
    /\ cache = <<>>
    /\ cacheEnabled = TRUE
    /\ lastCall = NoCall
    /\ prevCall = NoCall
    /\ nCalls = 0
    /\ workers = NoCallers
    /\ piiIn = NoPii
    /\ piiOut = NoPii
    /\ DocIdle

ChunkMistakenCall ==
    /\ chunker = NoChunker
    /\ \E call \in MistakenCalls :
          /\ call.overlap_argument[1] >= call.size_argument[1]
          /\ chunker' = ChunkCall(call)
    /\ UNCHANGED <<embedVars, workers, piiVars, doc>>

NextChunkRuns == ChunkMistakenCall \/ ChunkBegin \/ ChunkParagraph \/ ChunkFinish

\* the call is never suspended for ever: it is straight-line code and a loop
\* over a list
SpecChunkRuns == InitChunkRuns /\ [][NextChunkRuns]_vars /\ WF_vars(NextChunkRuns)

-----------------------------------------------------------------------------
(* DocumentProcessor.process_document, a statement at a time *)

\* docling's ConversionStatus
ConversionStatus ==
    {"PENDING", "STARTED", "FAILURE", "SUCCESS", "PARTIAL_SUCCESS", "SKIPPED"}

\* what converter.convert does with a file: it raises, or it returns a result
\* with a status and a document that exports to a content (with the part that
\* was read when the status is not SUCCESS)
Conversions ==
    {[kind |-> "raises", status |-> "FAILURE", content |-> <<>>]}
    \cup {[kind |-> "returns", status |-> status, content |-> c] :
              status \in ConversionStatus, c \in RunContents}

Filename == "file"

\* a status that lets a document pass, were a partly converted one let through
StatusPassesWhenPartial(status) == status \in {"SUCCESS", "PARTIAL_SUCCESS"}

\* the negation of "result.status != ConversionStatus.SUCCESS"
StatusPasses(status) == status = "SUCCESS"

\* the dictionary process_document returns
ProcessedDocument(document_id, filename, markdown_content, chunks, metadata) ==
    [document_id |-> document_id, filename |-> filename,
     content |-> markdown_content, chunks |-> chunks, metadata |-> metadata,
     word_count |-> word_count(markdown_content)]

\* the call made on a file, nothing executed yet; convert_calls counts the
\* calls of converter.convert, returned and raised hold what the caller gets
DocumentCall(conversion) ==
    [pc |-> "called", conversion |-> conversion, convert_calls |-> 0,
     returned |-> <<>>, raised |-> <<>>]

InitDocument ==
    /\ cache = <<>>
    /\ cacheEnabled = TRUE
    /\ lastCall = NoCall
    /\ prevCall = NoCall
    /\ nCalls = 0
    /\ workers = NoCallers
    /\ piiIn = NoPii
    /\ piiOut = NoPii
    /\ chunker = NoChunker
    /\ doc \in {DocumentCall(conversion) : conversion \in Conversions}

\* result = converter.convert(file_path); an exception goes to the except
\* clause of line 142, which logs it and raises it again
Convert ==
    /\ doc.pc = "called"
    /\ doc' = [doc EXCEPT
                   !.convert_calls = @ + 1,
                   !.pc = IF doc.conversion.kind = "raises" THEN "raised"
                          ELSE "converted",
                   !.raised = IF doc.conversion.kind = "raises"
                              THEN <<"Exception">> ELSE <<>>]
    /\ UNCHANGED <<embedVars, workers, piiVars, chunker>>

\* if result.status != ConversionStatus.SUCCESS: raise ValueError(...), which
\* the except clause logs and raises again
CheckStatus ==
    /\ doc.pc = "converted"
    /\ doc' = [doc EXCEPT
                   !.pc = IF StatusPasses(doc.conversion.status) THEN "export"
                          ELSE "raised",
                   !.raised = IF StatusPasses(doc.conversion.status) THEN <<>>
                              ELSE <<"ValueError">>]
    /\ UNCHANGED <<embedVars, workers, piiVars, chunker>>

\* lines 113-140: the export, the metadata, the chunks, the return
ExportAndChunk ==
    /\ doc.pc = "export"
    /\ LET markdown_content == doc.conversion.content
           chunks == _chunk_content(markdown_content, DocumentId, Metadata,
                                    Omitted, Omitted)
       IN  doc' = [doc EXCEPT
                       !.pc = "returned",
                       !.returned = <<ProcessedDocument(DocumentId, Filename,
                                                        markdown_content, chunks,
                                                        Metadata)>>]
    /\ UNCHANGED <<embedVars, workers, piiVars, chunker>>

NextDocument == Convert \/ CheckStatus \/ ExportAndChunk

SpecDocument == InitDocument /\ [][NextDocument]_vars

-----------------------------------------------------------------------------
(* EmbeddingService.compute_similarity.                                     *)
(*                                                                          *)
(* A vector is a sequence of integers.  The quotient the code returns is    *)
(* kept exact: [dot, sq1, sq2] stands for dot / (sqrt(sq1) * sqrt(sq2)).    *)

RECURSIVE dot(_, _)
dot(vec1, vec2) ==
    IF vec1 = <<>> THEN 0
    ELSE Head(vec1) * Head(vec2) + dot(Tail(vec1), Tail(vec2))

\* np.linalg.norm(vec) is the square root of this
norm_squared(vec) == dot(vec, vec)

Quotient(d, sq1, sq2) == [dot |-> d, sq1 |-> sq1, sq2 |-> sq2]

\* the 0.0 of the early return
Zero == Quotient(0, 1, 1)

\* np.dot raises ValueError on one-dimensional arrays of different lengths
compute_similarity(c, embedding1, embedding2) ==
    IF Len(embedding1) # Len(embedding2) THEN Raising(c, <<>>)
    ELSE LET dot_product == dot(embedding1, embedding2)
             sq1 == norm_squared(embedding1)
             sq2 == norm_squared(embedding2)
         IN  IF sq1 = 0 \/ sq2 = 0 THEN Outcome(Zero, c, <<>>)
             ELSE Outcome(Quotient(dot_product, sq1, sq2), c, <<>>)

Vectors == SeqsUpTo({-1, 0, 1}, MaxDim)

ComputeSimilarity ==
    /\ nCalls < SimilarityCalls
    /\ \E embedding1 \in Vectors, embedding2 \in Vectors :
          Returned("compute_similarity", <<embedding1, embedding2>>,
                   compute_similarity(cache, embedding1, embedding2))

NextSimilarity == ComputeSimilarity

SpecSimilarity == Init /\ [][NextSimilarity]_vars

-----------------------------------------------------------------------------
(* DocumentProcessor.generate_document_id.                                  *)
(*                                                                          *)
(* A content is a sequence of bytes, a filename a sequence of characters.   *)

\* str.encode(): the UTF-8 bytes of a character, one for "a", two for "é"
Utf8(ch) == IF ch = "a" THEN <<97>> ELSE <<195, 169>>

RECURSIVE encode(_)
encode(filename) ==
    IF filename = <<>> THEN <<>> ELSE Utf8(Head(filename)) \o encode(Tail(filename))

\* hashlib.sha256(hash_input).hexdigest(): 64 characters, each decided by the
\* whole input, and different inputs have different digests
hexdigest(hash_input) == [k \in 1..64 |-> <<"sha256", k, hash_input>>]

\* hash_input = content + filename.encode()
hash_input(content, filename) == content \o encode(filename)

\* an id made of the content alone
generate_document_id_of_content(content, filename) ==
    SubSeq(hexdigest(content), 1, 16)

\* hashlib.sha256(hash_input).hexdigest()[:16]
generate_document_id(content, filename) ==
    SubSeq(hexdigest(hash_input(content, filename)), 1, 16)

FileBytes == {97, 195, 169}

FileContents == SeqsUpTo(FileBytes, MaxBytes)

Filenames == SeqsUpTo({"a", "é"}, MaxNameLen)

\* the generate_document_id calls made so far: their arguments and ids
NoIds == [pc |-> "ids", calls |-> <<>>]

InitIdentity ==
    /\ cache = <<>>
    /\ cacheEnabled = TRUE
    /\ lastCall = NoCall
    /\ prevCall = NoCall
    /\ nCalls = 0
    /\ workers = NoCallers
    /\ piiIn = NoPii
    /\ piiOut = NoPii
    /\ chunker = NoChunker
    /\ doc = NoIds

\* one call, and one more to compare it with
GenerateDocumentId ==
    /\ doc.pc = "ids"
    /\ Len(doc.calls) < 2
    /\ \E content \in FileContents, filename \in Filenames :
          doc' = [doc EXCEPT !.calls =
                      Append(@, [content |-> content, filename |-> filename,
                                 hashed |-> hash_input(content, filename),
                                 id |-> generate_document_id(content, filename)])]
    /\ UNCHANGED <<embedVars, workers, piiVars, chunker>>

NextIdentity == GenerateDocumentId

SpecIdentity == InitIdentity /\ [][NextIdentity]_vars

-----------------------------------------------------------------------------
(* Properties of the embedding service, one caller at a time *)

\* the number of texts a call submitted to the model, over all its batches
RECURSIVE Submitted(_)
Submitted(encoded) ==
    IF encoded = <<>> THEN 0 ELSE Len(encoded[1]) + Submitted(Tail(encoded))

Called(op) == nCalls' = nCalls + 1 /\ lastCall'.op = op

\* C1: embed_texts returns as many vectors as it was given texts, and the
\* vector at each position is the one embed_text returns for the text at that
\* position, whatever the order, the repetitions and the cached texts.
C1_EmbedTextsAgreesWithEmbedText ==
    lastCall.op = "embed_texts" =>
        /\ Len(lastCall.result) = Len(lastCall.arg)
        /\ \A i \in 1..Len(lastCall.arg) :
              lastCall.result[i] =
                  embed_text(cache, cacheEnabled, lastCall.arg[i]).result

\* an embed_texts call that got a repeated text, cached and uncached texts
C1_Witness ==
    /\ lastCall.op = "embed_texts"
    /\ \E i, j \in 1..Len(lastCall.arg) : i < j /\ lastCall.arg[i] = lastCall.arg[j]
    /\ lastCall.encoded # <<>>
    /\ Submitted(lastCall.encoded) < Len(lastCall.arg)
    /\ lastCall.arg[1] = lastCall.encoded[1][1]

\* C2: one embed_texts call submits to the model, in at most one batch, as
\* many texts as there are distinct input texts missing from the cache.
C2_SubmitsUniqueMisses ==
    [][Called("embed_texts") =>
          LET arg == lastCall'.arg
              misses == {arg[i] : i \in 1..Len(arg)} \
                            {t \in Texts : CacheHas(cache, _get_cache_key(t))}
          IN  /\ Len(lastCall'.encoded) <= 1
              /\ Submitted(lastCall'.encoded) = Cardinality(misses)]_vars

\* C3: the cache holds at most CacheCeiling entries after every call.
C3_CacheWithinCeiling == Len(cache) <= CacheCeiling

\* C5: with caching enabled, embed_text of the text the call before embedded
\* submits nothing to the model and returns the vector that call returned.
C5_SecondCallHits ==
    ( /\ cacheEnabled
      /\ lastCall.op = "embed_text"
      /\ prevCall.op = "embed_text"
      /\ lastCall.arg = prevCall.arg )
    => /\ lastCall.encoded = <<>>
       /\ lastCall.result = prevCall.result

\* the first of the two calls computed the vector and its store evicted
C5_Witness ==
    /\ cacheEnabled
    /\ lastCall.op = "embed_text"
    /\ prevCall.op = "embed_text"
    /\ lastCall.arg = prevCall.arg
    /\ prevCall.encoded # <<>>
    /\ Len(cache) = CacheCeiling + 1 - EvictCount

-----------------------------------------------------------------------------
(* Properties of concurrent embed_texts calls *)

\* C4: in every interleaving of two embed_texts calls no call fails, a call
\* that has finished holds the model's vector of texts[i] at every position
\* i, and every cache entry holds the vector of its own text, each key once.
C4_ConcurrentCallsStayCorrect ==
    /\ \A w \in Callers :
          /\ workers[w].pc # "raised"
          /\ workers[w].pc = "done" =>
                /\ Len(workers[w].result) = Len(workers[w].texts)
                /\ \A i \in 1..Len(workers[w].texts) :
                      workers[w].result[i] = Encode(workers[w].texts[i])
    /\ \A k \in 1..Len(cache) :
          \E t \in 1..RaceText : cache[k] = <<_get_cache_key(t), Encode(t)>>
    /\ \A k, l \in 1..Len(cache) : cache[k][1] = cache[l][1] => k = l

\* both calls have finished, both missed and computed the same text, and the
\* first also took another text from the cache
C4_Witness ==
    /\ cacheEnabled
    /\ workers[1].pc = "done" /\ workers[2].pc = "done"
    /\ \E m \in 1..Len(workers[1].st.texts_to_embed) :
       \E n \in 1..Len(workers[2].st.texts_to_embed) :
          workers[1].st.texts_to_embed[m] = workers[2].st.texts_to_embed[n]
    /\ Len(workers[1].st.texts_to_embed) < Len(workers[1].texts)

-----------------------------------------------------------------------------
(* Properties of detection and redaction *)

Detected == piiOut.op \in {"detect_pii", "redact_pii"} /\ piiIn.enabled

Span(d) == <<d.start, d.end>>

Disjoint(d, e) == d.end <= e.start \/ e.end <= d.start

\* the content from position p on with every span replaced by the
\* placeholder of its category and the characters outside the spans kept
RECURSIVE Redacted(_, _, _)
Redacted(content, detections, p) ==
    LET empty == SelectSeq(detections, LAMBDA d : d.start = p /\ d.end = p)
        begun == SelectSeq(detections, LAMBDA d : d.start = p /\ d.end > p)
        placeholders == [k \in 1..Len(empty \o begun) |->
                            <<"[", (empty \o begun)[k].category, "]">>]
        covered == \E k \in 1..Len(detections) :
                       detections[k].start <= p /\ p < detections[k].end
        Flat[k \in 0..Len(placeholders)] ==
            IF k = 0 THEN <<>> ELSE Flat[k - 1] \o placeholders[k]
    IN  Flat[Len(placeholders)]
            \o (IF p >= Len(content) THEN <<>>
                ELSE (IF covered THEN <<>> ELSE <<CharAt(content, p)>>)
                         \o Redacted(content, detections, p + 1))

\* C7: when the detections of a content are pairwise non-overlapping,
\* redact_pii returns the content with each detected span replaced by the
\* placeholder of its category and every other character in place; with no
\* detection it returns the content.
C7_RedactionReplacesExactlyTheSpans ==
    piiOut.op = "redact_pii" =>
        LET detections == piiOut.result.detections
        IN  (\A k, l \in 1..Len(detections) :
                 k # l => Disjoint(detections[k], detections[l]))
            => piiOut.redacted = Redacted(piiIn.content, detections, 0)

\* C8: a detect_pii call with detection enabled runs the pattern-based
\* detector, after the extraction service when that is configured; when the
\* service throws, the call still returns and its result is the one the
\* pattern-based detector alone gives.
C8_PatternDetectorAlwaysRuns ==
    Detected =>
        /\ InList("regex", piiOut.result.ran)
        /\ piiIn.lx.kind # "absent" => piiOut.result.ran = <<"langextract", "regex">>
        /\ piiOut.result.threw =>
              LET alone == detect_pii([piiIn EXCEPT !.lx = [kind |-> "absent"]])
              IN  /\ piiOut.result.detections = alone.detections
                  /\ piiOut.result.has_pii = alone.has_pii
                  /\ piiOut.result.categories_found = alone.categories_found

\* the service threw on its second extraction, after one that was found, and
\* the patterns detected something
C8_Witness ==
    /\ piiOut.op = "detect_pii"
    /\ piiIn.enabled
    /\ piiIn.lx.kind = "ok"
    /\ piiIn.lx.extractions = <<Extraction("email", <<"a">>), Extraction("email", None)>>
    /\ Find(piiIn.content, <<"a">>) >= 0
    /\ piiOut.result.threw
    /\ piiOut.result.detections # <<>>

\* what each source found in the call
HighAccuracy ==
    LET categories == IF piiIn.categories = None \/ piiIn.categories = <<>>
                      THEN PIICategory ELSE piiIn.categories
    IN  IF piiIn.lx.kind = "absent" THEN <<>>
        ELSE _detect_with_langextract(piiIn.content, categories, piiIn.lx).detections

PatternBased ==
    LET categories == IF piiIn.categories = None \/ piiIn.categories = <<>>
                      THEN PIICategory ELSE piiIn.categories
    IN  _detect_with_regex(piiIn.content, categories).detections

\* C9: the detections returned are all high-accuracy detections followed, in
\* their order, by the pattern-based detections that are kept; a pattern-based
\* detection is dropped when a high-accuracy detection (or a pattern-based
\* detection before it) has exactly its (start, end), and kept otherwise, also
\* when it overlaps another detection without having the same span.
C9_MergeByExactSpan ==
    Detected =>
        LET high == HighAccuracy
            pattern == PatternBased
            Dropped(k) ==
                \/ \E m \in 1..Len(high) : Span(high[m]) = Span(pattern[k])
                \/ \E m \in 1..(k - 1) : Span(pattern[m]) = Span(pattern[k])
            Kept[k \in 0..Len(pattern)] ==
                IF k = 0 THEN <<>>
                ELSE IF Dropped(k) THEN Kept[k - 1]
                ELSE Append(Kept[k - 1], pattern[k])
        IN  piiOut.result.detections = high \o Kept[Len(pattern)]

\* one pattern-based detection was dropped for a high-accuracy detection of
\* the same span, another was kept though it overlaps a high-accuracy one
C9_Witness ==
    /\ Detected
    /\ \E k \in 1..Len(PatternBased), m \in 1..Len(HighAccuracy) :
          Span(PatternBased[k]) = Span(HighAccuracy[m])
    /\ \E k, m \in 1..Len(piiOut.result.detections) :
          /\ piiOut.result.detections[k].source = "langextract"
          /\ piiOut.result.detections[m].source = "regex"
          /\ ~ Disjoint(piiOut.result.detections[k], piiOut.result.detections[m])
          /\ Span(piiOut.result.detections[k]) # Span(piiOut.result.detections[m])

\* C10: every detection returned has 0 <= start < end <= len(content) and
\* text = content[start:end].
C10_DetectionsAreSpansOfTheContent ==
    Detected =>
        \A k \in 1..Len(piiOut.result.detections) :
            LET d == piiOut.result.detections[k]
            IN  /\ 0 <= d.start
                /\ d.start < d.end
                /\ d.end <= Len(piiIn.content)
                /\ d.text = Slice(piiIn.content, d.start, d.end)

\* C11: with detection disabled by configuration, detect_pii returns has_pii
\* false, no category and no detection, and has run neither the extraction
\* service nor the pattern-based detector; redact_pii returns the content
\* unchanged.
C11_DisabledDetectsNothing ==
    (piiOut.op \in {"detect_pii", "redact_pii"} /\ ~ piiIn.enabled) =>
        /\ piiOut.result.has_pii = FALSE
        /\ piiOut.result.categories_found = {}
        /\ piiOut.result.detections = <<>>
        /\ piiOut.result.ran = <<>>
        /\ piiOut.op = "redact_pii" => piiOut.redacted = piiIn.content

\* redact_pii was called with detection disabled on a content in which both
\* detectors, had they run, would have found something
C11_Witness ==
    /\ piiOut.op = "redact_pii"
    /\ ~ piiIn.enabled
    /\ piiIn.lx.kind = "ok"
    /\ \E k, m \in 1..Len(RunDetectors(piiIn).detections) :
          /\ RunDetectors(piiIn).detections[k].source = "langextract"
          /\ RunDetectors(piiIn).detections[m].source = "regex"

-----------------------------------------------------------------------------
(* Properties of the chunker *)

ChunkReturned == chunker.pc = "returned"

\* the non-empty trimmed paragraphs of a text, in order
NonEmptyParagraphs(text) ==
    IF strip(text) = <<>> THEN <<>>
    ELSE LET pieces == split(strip(text))
         IN  SelectSeq([k \in 1..Len(pieces) |-> strip(pieces[k])],
                       LAMBDA para : para # <<>>)

IsPrefix(s, t) == Len(s) <= Len(t) /\ SubSeq(t, 1, Len(s)) = s

IsSuffix(s, t) == Len(s) <= Len(t) /\ SubSeq(t, Len(t) - Len(s) + 1, Len(t)) = s

IsSubstring(s, t) ==
    \E from \in 0..(Len(t) - Len(s)) : SubSeq(t, from + 1, from + Len(s)) = s

\* the sequences of a sequence of sequences, one after the other
RECURSIVE Flattened(_)
Flattened(lists) ==
    IF lists = <<>> THEN <<>> ELSE Head(lists) \o Flattened(Tail(lists))

\* C12: when chunk_overlap < chunk_size and every paragraph of the input is at
\* most chunk_size characters long, every chunk returned has
\* char_count <= chunk_size.
C12_ChunksWithinSize ==
    (/\ ChunkReturned
     /\ chunker.chunk_overlap < chunker.chunk_size
     /\ \A k \in 1..Len(NonEmptyParagraphs(chunker.content)) :
            Len(NonEmptyParagraphs(chunker.content)[k]) <= chunker.chunk_size)
    => \A k \in 1..Len(chunker.st.chunks) :
           chunker.st.chunks[k].char_count <= chunker.chunk_size

\* C13: of two consecutive chunks the later begins with the seed its buffer
\* was started with, and that seed is a suffix of the earlier chunk's content
\* of at most chunk_overlap characters; two paragraphs of 40 characters with
\* chunk_size 50 and chunk_overlap 10 give exactly 2 chunks, the second
\* beginning with between 1 and 10 of the last characters of the first.
C13_ConsecutiveChunksOverlap ==
    ChunkReturned =>
        /\ \A k \in 2..Len(chunker.st.chunks) :
               /\ IsPrefix(chunker.st.seeds[k], chunker.st.chunks[k].content)
               /\ IsSuffix(chunker.st.seeds[k], chunker.st.chunks[k - 1].content)
               /\ Len(chunker.st.seeds[k]) <= chunker.chunk_overlap
        /\ chunker.content = TwoParagraphs.content =>
               /\ Len(chunker.st.chunks) = 2
               /\ chunker.st.seeds[2] # <<>>
               /\ Len(chunker.st.seeds[2]) <= 10

\* a later chunk was started with a seed that is a part, not the whole, of
\* the chunk before it
C13_Witness ==
    /\ ChunkReturned
    /\ \E k \in 2..Len(chunker.st.chunks) :
          /\ chunker.st.seeds[k] # <<>>
          /\ Len(chunker.st.seeds[k]) < Len(chunker.st.chunks[k - 1].content)
          /\ Len(chunker.st.seeds[k]) < Len(chunker.st.chunks[k].content)

\* C14: every non-empty paragraph of the trimmed input is appended to a buffer
\* exactly once, in order, and is a contiguous part of the chunk made of that
\* buffer; a paragraph longer than chunk_size is the only paragraph of its
\* chunk, which is that paragraph, whole, after the seed when there is one.
C14_ParagraphsAreNeverSplit ==
    ChunkReturned =>
        /\ Flattened(chunker.st.appended) = NonEmptyParagraphs(chunker.content)
        /\ \A k \in 1..Len(chunker.st.chunks) :
               \A m \in 1..Len(chunker.st.appended[k]) :
                   LET para == chunker.st.appended[k][m]
                       seed == chunker.st.seeds[k]
                   IN  /\ IsSubstring(para, chunker.st.chunks[k].content)
                       /\ Len(para) > chunker.chunk_size =>
                              /\ chunker.st.appended[k] = <<para>>
                              /\ chunker.st.chunks[k].content =
                                     IF seed = <<>> THEN para
                                     ELSE seed \o ParagraphSeparator \o para

\* a paragraph longer than chunk_size, in a chunk started with a seed
C14_Witness ==
    /\ ChunkReturned
    /\ \E k \in 2..Len(chunker.st.chunks) :
          /\ chunker.st.seeds[k] # <<>>
          /\ Len(chunker.st.appended[k][1]) > chunker.chunk_size

\* the paragraphs of the chunks from the k-th on, each chunk without the seed
\* it was started with
RECURSIVE WithoutOverlaps(_, _, _)
WithoutOverlaps(chunks, seeds, k) ==
    IF k > Len(chunks) THEN <<>>
    ELSE NonEmptyParagraphs(SubSeq(chunks[k].content, Len(seeds[k]) + 1,
                                   Len(chunks[k].content)))
             \o WithoutOverlaps(chunks, seeds, k + 1)

\* C15: the chunk contents in index order, each without the seed it was
\* started with, are the non-empty trimmed paragraphs of the trimmed input,
\* each once and in order.
C15_ChunksReconstructTheInput ==
    ChunkReturned =>
        WithoutOverlaps(chunker.st.chunks, chunker.st.seeds, 1)
            = NonEmptyParagraphs(chunker.content)

\* three paragraphs, two of them in one chunk, and a chunk started with a
\* seed
C15_Witness ==
    /\ ChunkReturned
    /\ Len(NonEmptyParagraphs(chunker.content)) >= 3
    /\ \E k \in 1..Len(chunker.st.chunks) : Len(chunker.st.appended[k]) >= 2
    /\ \E k \in 2..Len(chunker.st.chunks) : chunker.st.seeds[k] # <<>>

\* C16: the chunks returned have chunk_index 0, 1, ..., n-1 in list order,
\* chunk_id made of the document id, "_chunk_" and the chunk_index, a content
\* that is not empty after trimming, and char_count the length of the content.
C16_ChunksAreNumberedAndCounted ==
    ChunkReturned =>
        \A k \in 1..Len(chunker.st.chunks) :
            LET chunk == chunker.st.chunks[k]
            IN  /\ chunk.chunk_index = k - 1
                /\ chunk.chunk_id = <<DocumentId, "_chunk_", k - 1>>
                /\ \E p \in 1..Len(chunk.content) : ~ IsWhitespace(chunk.content[p])
                /\ chunk.char_count = Len(chunk.content)

C16_Witness ==
    /\ ChunkReturned
    /\ Len(chunker.st.chunks) >= 3
    /\ \E k \in 1..Len(chunker.st.chunks) :
          \E p \in 1..Len(chunker.st.chunks[k].content) :
              IsWhitespace(chunker.st.chunks[k].content[p])

\* C17: a call with chunk_overlap >= chunk_size returns, having taken every
\* paragraph once; a seed is the whole chunk before it whenever chunk_overlap
\* reaches the length of the buffer, the cut being held at 0, and a suffix of
\* it otherwise.
C17_OverlapBeyondSizeTerminates ==
    (/\ chunker.pc = "called"
     /\ OrDefault(chunker.overlap_argument, CHUNK_OVERLAP)
            >= OrDefault(chunker.size_argument, CHUNK_SIZE))
        ~> (/\ chunker.pc = "returned"
            /\ chunker.st.consumed = Len(chunker.paragraphs)
            /\ Flattened(chunker.st.appended) = NonEmptyParagraphs(chunker.content)
            /\ \A k \in 2..Len(chunker.st.chunks) :
                   LET before == chunker.st.chunks[k - 1].content
                   IN  IF chunker.chunk_overlap >= Len(before) + 2
                       THEN chunker.st.seeds[k] = before
                       ELSE IsSuffix(chunker.st.seeds[k], before))

\* chunk_overlap >= chunk_size, and a chunk was started with the whole of the
\* chunk before it
C17_Witness ==
    /\ ChunkReturned
    /\ chunker.chunk_overlap >= chunker.chunk_size
    /\ chunker.chunk_overlap < CHUNK_OVERLAP
    /\ \E k \in 2..Len(chunker.st.chunks) :
          /\ chunker.st.seeds[k] = chunker.st.chunks[k - 1].content
          /\ chunker.chunk_overlap > Len(chunker.st.chunks[k - 1].content) + 2

\* C18: called on a text that is empty or all whitespace, _chunk_content
\* returns at its first step, with no chunk.
C18_BlankTextGivesNoChunk ==
    [][(/\ chunker.pc = "called"
        /\ \A p \in 1..Len(chunker.content) : IsWhitespace(chunker.content[p]))
       => (chunker'.pc = "returned" /\ chunker'.st.chunks = <<>>)]_vars

\* a text of blanks and newlines was chunked
C18_Witness ==
    /\ ChunkReturned
    /\ Len(chunker.content) >= 3
    /\ \A p \in 1..Len(chunker.content) : IsWhitespace(chunker.content[p])
    /\ \E p \in 1..Len(chunker.content) : chunker.content[p] = NL
    /\ chunker.st.chunks = <<>>

-----------------------------------------------------------------------------
(* Properties of the embedding service when the model fails *)

\* C19: a call in which model.encode was called and raised ends with the
\* exception, returns no vector and no list, and leaves the cache as it was
\* before the call.
C19_EncodeFailurePropagates ==
    [][(/\ nCalls' = nCalls + 1
        /\ lastCall'.model = "raises"
        /\ lastCall'.encoded # <<>>)
       => (/\ lastCall'.raised
           /\ lastCall'.result = <<>>
           /\ cache' = cache)]_vars

\* embed_texts raised on a list of which one text was cached and another not
C19_Witness ==
    /\ lastCall.op = "embed_texts"
    /\ lastCall.raised
    /\ cacheEnabled
    /\ \E k, m \in 1..Len(lastCall.arg) :
          /\ CacheHas(cache, _get_cache_key(lastCall.arg[k]))
          /\ ~ CacheHas(cache, _get_cache_key(lastCall.arg[m]))

-----------------------------------------------------------------------------
(* Properties of process_document *)

\* C20: a process_document call whose conversion reported a status other than
\* SUCCESS raises and returns nothing, neither chunks nor the text that was
\* converted; the converter is called once in a call, never a second time.
C20_FailedConversionIsFatal ==
    /\ doc.pc = "called" => doc.convert_calls = 0
    /\ doc.pc \in {"converted", "export", "returned", "raised"} =>
           doc.convert_calls = 1
    /\ (/\ doc.pc \in {"export", "returned", "raised"}
        /\ doc.conversion.kind = "returns"
        /\ doc.conversion.status # "SUCCESS")
       => (/\ doc.pc = "raised"
           /\ doc.raised = <<"ValueError">>
           /\ doc.returned = <<>>)

\* a conversion that read a part of a document with paragraphs was refused
C20_Witness ==
    /\ doc.pc = "raised"
    /\ doc.conversion.kind = "returns"
    /\ doc.conversion.status = "PARTIAL_SUCCESS"
    /\ Len(NonEmptyParagraphs(doc.conversion.content)) >= 2
    /\ doc.convert_calls = 1

-----------------------------------------------------------------------------
(* Properties of generate_document_id *)

TwoIds == doc.pc = "ids" /\ Len(doc.calls) = 2

\* C21: the same content and filename give the same id, of 16 characters;
\* the id differs when the content changes and the filename does not, and
\* when the filename changes and the content does not (different hashed
\* inputs having different digests).
C21_DocumentIdIsStable ==
    TwoIds =>
        LET one == doc.calls[1]
            other == doc.calls[2]
        IN  /\ Len(one.id) = 16
            /\ (one.content = other.content /\ one.filename = other.filename)
                   => one.id = other.id
            /\ (one.content # other.content /\ one.filename = other.filename)
                   => one.id # other.id
            /\ (one.content = other.content /\ one.filename # other.filename)
                   => one.id # other.id

\* the same content under two names of which one begins with the other
C21_Witness ==
    /\ TwoIds
    /\ doc.calls[1].content = doc.calls[2].content
    /\ doc.calls[1].content # <<>>
    /\ doc.calls[1].filename = <<"a">>
    /\ doc.calls[2].filename = <<"a", "é">>
    /\ doc.calls[1].id # doc.calls[2].id

\* C30: two calls with different (content, filename) pairs hash different
\* byte strings, also when content and filename both differ.
C30_HashedInputDeterminesThePair ==
    (/\ TwoIds
     /\ \/ doc.calls[1].content # doc.calls[2].content
        \/ doc.calls[1].filename # doc.calls[2].filename)
    => doc.calls[1].hashed # doc.calls[2].hashed

-----------------------------------------------------------------------------
(* Properties of compute_similarity *)

\* C22: compute_similarity never raises, returns a value between 0 and 1 for
\* every pair of vectors, and returns 0 when either vector has norm zero.
C22_SimilarityIsInUnitInterval ==
    lastCall.op = "compute_similarity" =>
        /\ ~lastCall.raised
        /\ lastCall.result.dot >= 0
        /\ lastCall.result.dot * lastCall.result.dot
               <= lastCall.result.sq1 * lastCall.result.sq2
        /\ (norm_squared(lastCall.arg[1]) = 0 \/ norm_squared(lastCall.arg[2]) = 0)
               => lastCall.result.dot = 0

-----------------------------------------------------------------------------
(* Properties of the PII service under each category argument *)

HasSpan(detections, category, span) ==
    \E k \in 1..Len(detections) :
        detections[k].category = category /\ Span(detections[k]) = span

\* C23: on "My password is secret123 and my email is john@example.com" with
\* the categories password and email, the detections include a password span
\* for secret123 and an email span for john@example.com, and redact_pii
\* returns "My password is [REDACTED_PASSWORD] and my email is [REDACTED_EMAIL]".
C23_ExampleIsRedacted ==
    (/\ Detected
     /\ piiIn.content = ExampleContent
     /\ piiIn.categories = <<"password", "email">>
     /\ piiIn.lx.kind = "absent")
    => /\ HasSpan(piiOut.result.detections, "password", ExampleSecret)
       /\ HasSpan(piiOut.result.detections, "email", ExampleAddress)
       /\ piiOut.op = "redact_pii" => piiOut.redacted = ExampleRedacted

\* C25: when a categories argument is passed, the empty list included, every
\* returned detection has a category of the argument and categories_found is
\* a subset of the argument.
C25_DetectionsStayWithinTheArgument ==
    (Detected /\ piiIn.categories # None) =>
        /\ \A k \in 1..Len(piiOut.result.detections) :
               InList(piiOut.result.detections[k].category, piiIn.categories)
        /\ piiOut.result.categories_found \subseteq SetOf(piiIn.categories)

\* C26: the detections detect_pii returns have pairwise distinct (start, end)
\* spans, whatever the two sources report.
C26_SpansAreDistinct ==
    Detected =>
        \A k, l \in 1..Len(piiOut.result.detections) :
            k # l => Span(piiOut.result.detections[k]) # Span(piiOut.result.detections[l])

\* C27: categories_found is exactly the set of the categories of the returned
\* detections, and has_pii is true exactly when there is a detection.
C27_CategoriesFoundAreThoseDetected ==
    Detected =>
        /\ piiOut.result.categories_found
               = {piiOut.result.detections[k].category :
                      k \in 1..Len(piiOut.result.detections)}
        /\ piiOut.result.has_pii <=> piiOut.result.detections # <<>>

-----------------------------------------------------------------------------
(* Properties of clear_cache *)

\* C24: clear_cache returns the number of entries the cache held just before
\* the call and leaves the cache empty, and the embed_text call that follows
\* it invokes the model, whatever text it is given.
C24_ClearCacheCountsAndEmpties ==
    [][/\ Called("clear_cache") => (lastCall'.result = Len(cache) /\ cache' = <<>>)
       /\ (lastCall.op = "clear_cache" /\ Called("embed_text"))
              => lastCall'.encoded # <<>>]_vars

\* two entries were cleared and a call can follow
C24_Witness ==
    /\ lastCall.op = "clear_cache"
    /\ lastCall.result = 2
    /\ cache = <<>>
    /\ nCalls < MaxCalls

-----------------------------------------------------------------------------
(* Properties of the chunk_size and chunk_overlap arguments *)

\* C29: _chunk_content works with the chunk_size and the chunk_overlap it is
\* passed, whatever integers they are, and with the configured defaults only
\* for an omitted argument; with a chunk_overlap of 0 passed, no chunk starts
\* with an overlap seed.
C29_PassedValuesAreUsed ==
    chunker.pc \in {"loop", "returned"} =>
        /\ chunker.chunk_size =
               IF chunker.size_argument = Omitted THEN CHUNK_SIZE
               ELSE chunker.size_argument[1]
        /\ chunker.chunk_overlap =
               IF chunker.overlap_argument = Omitted THEN CHUNK_OVERLAP
               ELSE chunker.overlap_argument[1]
        /\ (ChunkReturned /\ chunker.overlap_argument = <<0>>) =>
               \A k \in 1..Len(chunker.st.seeds) : chunker.st.seeds[k] = <<>>

-----------------------------------------------------------------------------
(* Properties of concurrent calls on the shared cache *)

\* C28: in no interleaving of concurrent embed_text, embed_texts and
\* clear_cache calls does a call fail on the cache: no read of a key that was
\* removed after the membership test, no deletion of a key already deleted.
C28_NoCallFailsOnTheCache ==
    \A w \in Callers : workers[w].pc # "raised"

=============================================================================
